---- MODULE Spec2Model ----
(***************************************************************************)
(* Model of SearcherAgent (src/agents/searcher.py): research_ideas and the *)
(* helpers it calls.  Strings are sequences of one-character strings, so   *)
(* that str.lower, str.split and the `in` substring test are computed.     *)
(* Scores are kept in tenths (3 is 30, 1.5 is 15) and composite scores in  *)
(* hundredths, which makes 0.3/0.4/0.3 the integer weights 3/4/3; the      *)
(* model computes them exactly where Python computes them in binary        *)
(* floating point.                                                         *)
(***************************************************************************)
EXTENDS Integers, Sequences, FiniteSets, TLC

\* ------------------------------------------------------------------ bounds
\* Longest idea list handed to research_ideas.
MaxIdeas == 4
\* Longest idea list of the runs in which the backend's scores range wider.
MaxWideIdeas == 2
\* Longest topic list of a single _calculate_topic_match call.
MaxTopics == 3
\* Most entries in the feed answered to a single _search_papers call.
MaxFeed == 3
\* Largest `limit` argument of a single _search_papers call.
MaxLimit == 2
\* Most papers a search hands to the scoring of one idea on its own.
MaxPapers == 9
\* Longest sorted list handed to a single _select_diverse_top_3 call.
MaxWalk == 5
\* Most analyze requests made for the one analysis.
MaxRuns == 2
\* Most ideas the reader generates for a paper.
MaxReaderIdeas == 4

\* ------------------------------------------------------- program constants
\* _search_papers(..., max_retries=3)
max_retries == 3
\* time.sleep(3) in _search_papers and in research_ideas
SleepSeconds == 3
\* papers[:8] kept in a ScoredIdea
KeepPapers == 8
\* abstract[:500]
AbstractLimit == 500
\* neutral scores of the except branches and of an empty topic list, in tenths
NeutralScore == 30

\* ------------------------------------------------------------ small helpers
Min(a, b) == IF a < b THEN a ELSE b

\* Python s[:n]
Take(s, n) == SubSeq(s, 1, Min(n, Len(s)))

\* One character of str.lower() over the model's alphabet
LowerChar(c) ==
  CASE c = "A" -> "a"
    [] c = "B" -> "b"
    [] c = "C" -> "c"
    [] c = "D" -> "d"
    [] c = "E" -> "e"
    [] c = "I" -> "i"
    [] c = "P" -> "p"
    [] OTHER -> c

\* str.lower()
Lower(s) == [k \in DOMAIN s |-> LowerChar(s[k])]

\* str.split(): the maximal runs of non-blank characters, in order
RECURSIVE SplitFrom(_, _, _, _)
SplitFrom(s, k, cur, out) ==
  IF k > Len(s)
    THEN IF cur = <<>> THEN out ELSE Append(out, cur)
    ELSE IF s[k] = " "
           THEN SplitFrom(s, k + 1, <<>>, IF cur = <<>> THEN out ELSE Append(out, cur))
           ELSE SplitFrom(s, k + 1, Append(cur, s[k]), out)

Split(s) == SplitFrom(s, 1, <<>>, <<>>)

\* set(words)
WordSet(s) == LET words == Split(s) IN {words[k] : k \in DOMAIN words}

\* Python `word in text` on strings
Contains(text, word) ==
  \E p \in 1..(Len(text) - Len(word) + 1) : SubSeq(text, p, p + Len(word) - 1) = word

\* ------------------------------------------------------------------ inputs
\* Ideas as the Reader Agent hands them over: title and description.
TitleA == <<"a", " ", "a", " ", "a", " ", "a">>
TitleB == <<"a", " ", "b", " ", "c", " ", "d", " ", "e", " ", "f">>
TitleC == <<"A", " ", "B", " ", " ", "C", " ", "D">>
TitleD == <<"c", " ", "d", " ", "e", " ", "f">>
TitleE == <<"g", " ", "h">>

DescDeep == <<"d", "e", "e", "p", "e", "r", " ", "a", "i">>
DescPlain == <<"n", "e", "t">>

IdeaPool ==
  << [title |-> TitleA, description |-> DescPlain],
     [title |-> TitleB, description |-> DescDeep],
     [title |-> TitleC, description |-> DescPlain],
     [title |-> TitleD, description |-> DescPlain],
     [title |-> TitleE, description |-> DescDeep] >>

\* The sub-lists of the pool (pool order kept) of a given set of positions.
RECURSIVE SubList(_, _)
SubList(S, k) ==
  IF k > Len(IdeaPool) THEN <<>>
  ELSE IF k \in S THEN <<IdeaPool[k]>> \o SubList(S, k + 1)
       ELSE SubList(S, k + 1)

\* The inputs of a run: the sub-lists of the first MaxIdeas ideas of the pool.
IdeaLists == {SubList(S, 1) : S \in SUBSET (1..Min(MaxIdeas, Len(IdeaPool)))}

\* User topics.  analyze_paper (src/app.py:141) rejects an empty topic list
\* before it calls research_ideas, so a run starts with at least one topic.
TopicDeepAI == <<"D", "e", "e", "p", " ", "A", "I">>
TopicLists == {<<TopicDeepAI>>}

\* Topics of a single _calculate_topic_match call: a phrase with a word of
\* more than 3 characters, a phrase of one short word, a long word that no
\* idea text holds.
TopicAI == <<"A", "I">>
TopicNets == <<"N", "e", "t", "s">>
TopicPool == <<TopicDeepAI, TopicAI, TopicNets>>

\* The lists of at most n elements taken from the sequence `pool`.
ListsUpTo(pool, n) ==
  UNION {{[k \in 1..len |-> pool[f[k]]] : f \in [1..len -> DOMAIN pool]} : len \in 0..n}

\* Any list of at most MaxTopics topics, the empty list included.
CallTopicLists == ListsUpTo(TopicPool, MaxTopics)

\* ------------------------------------------------- the search backend's reply
\* An XML element looked up with entry.find: absent (find returns None),
\* present without text (.text is None), or present with text.
Absent == [k |-> "absent", v |-> <<>>]
NoText == [k |-> "notext", v |-> <<>>]
Txt(s) == [k |-> "text", v |-> s]

EntryGood ==
  [title |-> Txt(<<" ", "p", "1">>), summary |-> Txt(<<"s", "1", " ">>),
   published |-> Txt(<<"2", "0", "2", "1", "-", "0", "5">>), id |-> Txt(<<"u", "1">>)]
EntryNoSummary ==
  [title |-> Txt(<<"p", "2">>), summary |-> Absent,
   published |-> Txt(<<"2", "0", "1", "9">>), id |-> Absent]
EntryNoDate ==
  [title |-> Txt(<<"p", "3">>), summary |-> Txt(<<"s", "3">>),
   published |-> Absent, id |-> Txt(<<"u", "3">>)]
EntryEmptyTitle ==
  [title |-> NoText, summary |-> Txt(<<"s", "4">>),
   published |-> Txt(<<"2", "0", "2", "0">>), id |-> Txt(<<"u", "4">>)]

\* Well-formed Atom feeds the arXiv backend may answer with in a run of
\* research_ideas (the list of atom:entry elements, in document order).
PipelineFeeds ==
  { <<EntryGood, EntryNoSummary, EntryNoDate>>,
    <<EntryGood, EntryEmptyTitle>> }

\* The feeds answered to a single _search_papers call: any list of at most
\* MaxFeed of the entries above.
EntryPool == <<EntryGood, EntryNoSummary, EntryNoDate, EntryEmptyTitle>>
CallFeeds == ListsUpTo(EntryPool, MaxFeed)

\* str.strip() for blanks
RECURSIVE LStrip(_)
LStrip(s) == IF s # <<>> /\ Head(s) = " " THEN LStrip(Tail(s)) ELSE s
RECURSIVE RStrip(_)
RStrip(s) ==
  IF s # <<>> /\ s[Len(s)] = " " THEN RStrip(SubSeq(s, 1, Len(s) - 1)) ELSE s
Strip(s) == RStrip(LStrip(s))

\* str.replace('\n', ' ')
ReplaceNewline(s) == [k \in DOMAIN s |-> IF s[k] = "\n" THEN " " ELSE s[k]]

Digits == <<"0", "1", "2", "3", "4", "5", "6", "7", "8", "9">>
IsDigit(c) == \E d \in DOMAIN Digits : Digits[d] = c
DigitValue(c) == (CHOOSE d \in DOMAIN Digits : Digits[d] = c) - 1
RECURSIVE DigitsToInt(_, _)
DigitsToInt(s, acc) ==
  IF s = <<>> THEN acc ELSE DigitsToInt(Tail(s), 10 * acc + DigitValue(Head(s)))

NoYear == [k |-> "none", v |-> 0]
\* year = int(published.text[:4]), None when absent or when int() raises
YearOf(published) ==
  IF published.k # "text" THEN NoYear
  ELSE LET p == Take(published.v, 4)
       IN IF p # <<>> /\ \A k \in DOMAIN p : IsDigit(p[k])
            THEN [k |-> "int", v |-> DigitsToInt(p, 0)]
            ELSE NoYear

\* An entry passes `title is not None and summary is not None`.
EntryIncluded(e) == e.title.k # "absent" /\ e.summary.k # "absent"

\* title.text.strip() / summary.text.strip() on an element without text
\* raises AttributeError, which the generic `except Exception` turns into [].
EntryRaises(e) == EntryIncluded(e) /\ (e.title.k = "notext" \/ e.summary.k = "notext")

FormatEntry(e) ==
  [title |-> ReplaceNewline(Strip(e.title.v)),
   abstract |-> Take(ReplaceNewline(Strip(e.summary.v)), AbstractLimit),
   year |-> YearOf(e.published),
   citations |-> 0,
   url |-> IF e.id.k # "absent" THEN e.id.v ELSE <<>>]

RECURSIVE FormatEntries(_)
FormatEntries(entries) ==
  IF entries = <<>> THEN <<>>
  ELSE IF EntryIncluded(Head(entries))
         THEN <<FormatEntry(Head(entries))>> \o FormatEntries(Tail(entries))
         ELSE FormatEntries(Tail(entries))

\* The body of the try block after a 2xx answer: the formatted papers, or the
\* fact that formatting raised.
FeedRaises(entries) == \E k \in DOMAIN entries : EntryRaises(entries[k])

\* _search_papers(idea, limit=20)
DefaultLimit == 20

\* What _search_papers returns on a 2xx answer with a well-formed feed.  limit
\* goes into the request URL (max_results) and is not applied to the answer.
search_papers_result(entries, limit) ==
  IF FeedRaises(entries) THEN <<>> ELSE FormatEntries(entries)

\* ------------------------------------------------------------ topic matching
\* any(word in idea_text for word in topic_words if len(word) > 3)
TopicMatches(idea_text, topic) ==
  LET topic_words == Split(topic)
  IN \E k \in DOMAIN topic_words :
       /\ Len(topic_words[k]) > 3
       /\ Contains(idea_text, topic_words[k])

\* Mutant: the score is cut off after the first decimal.
TruncateTenths(num, den) == num \div den

\* round(x, 1) for x = num/den tenths, ties to the even tenth
RoundTenths(num, den) ==
  LET q == num \div den
      r == num % den
  IN IF 2 * r < den THEN q
     ELSE IF 2 * r > den THEN q + 1
     ELSE IF q % 2 = 0 THEN q ELSE q + 1

\* `matches` after the loop over user_topics_lower (lines 311-320)
topic_matches(idea, user_topics) ==
  LET idea_text == Lower(idea.title \o <<" ">> \o idea.description)
      user_topics_lower == [k \in DOMAIN user_topics |-> Lower(user_topics[k])]
  IN Cardinality({k \in DOMAIN user_topics_lower :
                    TopicMatches(idea_text, user_topics_lower[k])})

\* round(1.5 + (matches / n) * 3.5, 1), in tenths (lines 326-334)
topic_score(matches, n) == RoundTenths(15 * n + 35 * matches, n)

\* `if not user_topics: return 3`
NoTopicsScore == 30

\* Mutant: without topics the 2.5 of line 324 is returned.
calculate_topic_match_low_default(idea, user_topics) ==
  IF user_topics = <<>> THEN 25
  ELSE topic_score(topic_matches(idea, user_topics), Len(user_topics))

\* _calculate_topic_match, in tenths
calculate_topic_match(idea, user_topics) ==
  IF user_topics = <<>> THEN NoTopicsScore
  ELSE topic_score(topic_matches(idea, user_topics), Len(user_topics))

\* ------------------------------------------------ the generative backend's reply
\* A JSON value found under a score key: a number (in tenths), something that
\* is no number (a string, null), or no such key.
Num(n) == [k |-> "num", v |-> n]
NonNumeric == [k |-> "str", v |-> 0]
Missing == [k |-> "missing", v |-> 0]

\* Numbers the model lets the backend put under novelty_score / doability_score.
GenScores == {50}

\* What one generate_content call can do, as far as the callers can tell:
\* raise; return text json.loads rejects; return text that parses to a JSON
\* value other than an object; return an object, with or without the score.
GenRepliesWith(scores) ==
  {[kind |-> "raise", score |-> Missing],
   [kind |-> "nojson", score |-> Missing],
   [kind |-> "nonobject", score |-> Missing],
   [kind |-> "object", score |-> Missing],
   [kind |-> "object", score |-> NonNumeric]}
  \cup {[kind |-> "object", score |-> Num(n)] : n \in scores}

GenReplies == GenRepliesWith(GenScores)

\* A wider range of numbers: one inside 1..5 and one outside.
WideGenScores == {20, 90}

NoveltyDefault ==
  [json |-> "object", explored |-> "Unknown", maturity |-> "Unknown",
   gap |-> "Unable to assess", novelty_score |-> Num(NeutralScore)]

\* _assess_novelty: whatever json.loads returns is returned unchanged
assess_novelty(reply) ==
  IF reply.kind \in {"raise", "nojson"} THEN NoveltyDefault
  ELSE IF reply.kind = "nonobject"
         THEN [json |-> "number", explored |-> "", maturity |-> "", gap |-> "",
               novelty_score |-> Missing]
         ELSE [json |-> "object", explored |-> "Partially", maturity |-> "Emerging",
               gap |-> "gap", novelty_score |-> reply.score]

DoabilityDefault ==
  [json |-> "object", data_availability |-> "Unknown", methodology |-> "Unknown",
   timeline |-> "Unknown", expertise_level |-> "Unknown",
   doability_score |-> Num(NeutralScore)]

\* _assess_doability: assessment.get(...) in the print raises AttributeError on
\* a JSON value that is no object, inside the try
assess_doability(reply) ==
  IF reply.kind \in {"raise", "nojson", "nonobject"} THEN DoabilityDefault
  ELSE [json |-> "object", data_availability |-> "Available",
        methodology |-> "Standard", timeline |-> "6 months",
        expertise_level |-> "Masters", doability_score |-> reply.score]

SynthesisAbsent == [k |-> "absent"]
SynthesisDefault ==
  [k |-> "default"]
SynthesisParsed == [k |-> "parsed"]
SynthReplies == {"raise", "nojson", "parsed"}

\* _synthesize_literature
synthesize_literature(reply) ==
  IF reply \in {"raise", "nojson"} THEN SynthesisDefault ELSE SynthesisParsed

\* ---------------------------------------------------------- composite score
\* What evaluating 0.3 * assessment[key] does: "ok", or the exception raised.
ScoreAccess(json, score) ==
  IF json # "object" THEN "TypeError"
  ELSE IF score.k = "missing" THEN "KeyError"
  ELSE IF score.k # "num" THEN "TypeError"
  ELSE "ok"

\* Lines 52-56, left to right: the first operand that raises decides.
CompositeOutcome(nov, doa) ==
  IF ScoreAccess(nov.json, nov.novelty_score) # "ok"
    THEN ScoreAccess(nov.json, nov.novelty_score)
    ELSE ScoreAccess(doa.json, doa.doability_score)

\* Mutant: the weights of novelty and doability exchanged.
CompositeScoreSwapped(novelty_score, doability_score, topic_match_score) ==
  4 * novelty_score + 3 * doability_score + 3 * topic_match_score

\* 0.3 * novelty + 0.4 * doability + 0.3 * topic_match, in hundredths
CompositeScore(novelty_score, doability_score, topic_match_score) ==
  3 * novelty_score + 4 * doability_score + 3 * topic_match_score

\* ------------------------------------------------------- sort and selection
\* list.sort(key=composite_score, reverse=True) is stable: an element goes
\* behind every element whose key is greater or equal.
\* Mutant: an element goes in front of the elements with an equal key.
RECURSIVE InsertDescUnstable(_, _)
InsertDescUnstable(sorted, x) ==
  IF sorted = <<>> THEN <<x>>
  ELSE IF Head(sorted).composite_score > x.composite_score
         THEN <<Head(sorted)>> \o InsertDescUnstable(Tail(sorted), x)
         ELSE <<x>> \o sorted

RECURSIVE InsertDesc(_, _)
InsertDesc(sorted, x) ==
  IF sorted = <<>> THEN <<x>>
  ELSE IF Head(sorted).composite_score >= x.composite_score
         THEN <<Head(sorted)>> \o InsertDesc(Tail(sorted), x)
         ELSE <<x>> \o sorted

RECURSIVE SortDesc(_, _)
SortDesc(done, rest) ==
  IF rest = <<>> THEN done ELSE SortDesc(InsertDesc(done, Head(rest)), Tail(rest))

\* Mutant: the sort without reverse=True.
RECURSIVE InsertAsc(_, _)
InsertAsc(sorted, x) ==
  IF sorted = <<>> THEN <<x>>
  ELSE IF Head(sorted).composite_score <= x.composite_score
         THEN <<Head(sorted)>> \o InsertAsc(Tail(sorted), x)
         ELSE <<x>> \o sorted
RECURSIVE SortAsc(_, _)
SortAsc(done, rest) ==
  IF rest = <<>> THEN done ELSE SortAsc(InsertAsc(done, Head(rest)), Tail(rest))
SortByCompositeAscending(scored) == SortAsc(<<>>, scored)

SortByComposite(scored) == SortDesc(<<>>, scored)

\* set(title.lower().split())
TitleWords(title) == WordSet(Lower(title))

\* len(common_words) > 3, for two titles
TooSimilar(title1, title2) ==
  Cardinality(TitleWords(title1) \cap TitleWords(title2)) > 3

\* Mutant: the candidate is compared with the first selected idea only.
IsDiverseFromFirst(scored, k, top_3) ==
  ~TooSimilar(scored[k].idea.title, scored[top_3[1]].idea.title)

\* is_diverse after the inner loop over top_3 (positions in scored)
IsDiverse(scored, k, top_3) ==
  \A t \in DOMAIN top_3 :
    ~TooSimilar(scored[k].idea.title, scored[top_3[t]].idea.title)

\* Mutant: the walk does not stop when 3 are admitted.
RECURSIVE DiversityWalkNoStop(_, _, _)
DiversityWalkNoStop(scored, k, top_3) ==
  IF k > Len(scored) THEN top_3
  ELSE IF IsDiverse(scored, k, top_3)
         THEN DiversityWalkNoStop(scored, k + 1, Append(top_3, k))
         ELSE DiversityWalkNoStop(scored, k + 1, top_3)

\* The loop `for item in scored_ideas[1:]`, from position k on.
RECURSIVE DiversityWalk(_, _, _)
DiversityWalk(scored, k, top_3) ==
  IF k > Len(scored) \/ Len(top_3) >= 3 THEN top_3
  ELSE IF IsDiverse(scored, k, top_3)
         THEN DiversityWalk(scored, k + 1, Append(top_3, k))
         ELSE DiversityWalk(scored, k + 1, top_3)

\* What the walk alone admits on a list of more than 3.
WalkResult(scored) == DiversityWalk(scored, 2, <<1>>)

\* Mutant: what the walk admitted is kept when it is fewer than 3.
KeepWalkResult(scored, top_3) == top_3

\* `if len(top_3) < 3: top_3 = scored_ideas[:3]`
FallbackTop3(scored, top_3) ==
  IF Len(top_3) < 3 THEN [k \in 1..Min(3, Len(scored)) |-> k] ELSE top_3

\* Mutant: the title filter is applied to every list, short ones included.
select_always_filtered(scored) ==
  IF scored = <<>> THEN <<>> ELSE WalkResult(scored)

\* _select_diverse_top_3.  The Python lists hold references to the same
\* dicts, so the result is given as positions in scored.
select_diverse_top_3(scored) ==
  IF Len(scored) <= 3 THEN [k \in 1..Len(scored) |-> k]
  ELSE FallbackTop3(scored, WalkResult(scored))

\* ------------------------------------------------------------------- state
VARIABLES
  ideas,                \* argument of research_ideas
  user_topics,          \* argument of research_ideas
  pc,                   \* where research_ideas stands
  i,                    \* position (from 1) of the idea the loop is at
  attempt,              \* loop variable of _search_papers (0 outside a call)
  papers,               \* what _search_papers returned for idea i
  novelty_assessment,   \* what _assess_novelty returned for idea i
  doability_assessment, \* what _assess_doability returned for idea i
  scored_ideas,         \* the list of ScoredIdea dicts
  top_ideas,            \* positions in scored_ideas of the selected dicts
  j,                    \* position (from 1) in top_ideas of the synthesis loop
  result,               \* the returned dict, once returned
  raised,               \* the exception that left research_ideas, or "none"
  call_requests,        \* requests.get calls made by the current _search_papers
  search_outcome,       \* how the current _search_papers call ended
  requested,            \* some requests.get has been made in this run
  slept,                \* seconds of time.sleep executed since the last requests.get
  synth_calls,          \* positions in scored_ideas _synthesize_literature was called for
  gen_scores,           \* the numbers the generative backend may put under a score key
  fn,                   \* a single call of one helper outside a run: arguments and result
  app                   \* the web application around a run: store, session, requests

vars ==
  <<ideas, user_topics, pc, i, attempt, papers, novelty_assessment,
    doability_assessment, scored_ideas, top_ideas, j, result, raised,
    call_requests, search_outcome, requested, slept, synth_calls, gen_scores, fn, app>>

NoResult == [returned |-> FALSE, top_ideas |-> <<>>, total_ideas_analyzed |-> 0]

\* A call of one helper on its own, before it has run: `outs` collects what
\* the calls returned, `requests` counts the backend requests they made and
\* `slept` the seconds they slept.
Call(name, args) ==
  [name |-> name, args |-> args, outs |-> <<>>, requests |-> 0, slept |-> 0]

\* No helper is called on its own during a run of research_ideas.
NoCall == Call("none", <<>>)

\* No request is served: research_ideas or a helper runs on its own.
NoApp == [pc |-> "none"]

\* The locals of research_ideas before its first statement.
RunLocals ==
  /\ synth_calls = <<>>
  /\ i = 1
  /\ attempt = 0
  /\ papers = <<>>
  /\ novelty_assessment = NoveltyDefault
  /\ doability_assessment = DoabilityDefault
  /\ scored_ideas = <<>>
  /\ top_ideas = <<>>
  /\ j = 1
  /\ result = NoResult
  /\ raised = "none"
  /\ call_requests = 0
  /\ search_outcome = "none"
  /\ requested = FALSE
  /\ slept = 0

\* The state in which research_ideas(idea_list, topics) starts.
RunStarts(idea_list, topics, scores) ==
  /\ ideas = idea_list
  /\ user_topics = topics
  /\ gen_scores = scores
  /\ fn = NoCall
  /\ app = NoApp
  /\ pc = "loop"
  /\ RunLocals

Init ==
  \E idea_list \in IdeaLists, topics \in TopicLists :
    RunStarts(idea_list, topics, GenScores)

\* time.sleep(3) at line 160, after a successful fetch
SleepAfterSuccess(s) == s + SleepSeconds
\* time.sleep(wait_time) at line 169, before a retry
SleepBeforeRetry(s) == s + SleepSeconds
\* Mutant: no sleep at the end of an idea.
NoSleepBetweenIdeas(s) == s
\* time.sleep(3) at line 69, at the end of each idea
SleepBetweenIdeas(s) == s + SleepSeconds
\* Mutant: the last retry is given up.
RetriesLeftShort(a) == a < max_retries - 2
\* `if attempt < max_retries - 1`
RetriesLeft(a) == a < max_retries - 1
\* Mutant: an unparseable body is retried like a transport error.
RetriesParseErrorLikeTransport(a) == RetriesLeft(a)
\* `except Exception` (lines 174-176) has no retry: it returns [] on any attempt.
RetriesAfterParseError(a) == FALSE

\* `for i, idea in enumerate(ideas)`: next idea, or leave the loop.  Entering
\* the body calls _search_papers, whose own loop starts at attempt 0.
LoopHead ==
  /\ pc = "loop"
  /\ IF i <= Len(ideas)
       THEN /\ pc' = "search"
            /\ attempt' = 0
            /\ call_requests' = 0
            /\ search_outcome' = "none"
       ELSE /\ pc' = "sort"
            /\ UNCHANGED <<attempt, call_requests, search_outcome>>
  /\ UNCHANGED <<ideas, user_topics, i, papers, novelty_assessment,
                 doability_assessment, scored_ideas, top_ideas, j, result,
                 raised, requested, slept>>
  /\ UNCHANGED <<gen_scores, synth_calls, fn, app>>

\* One pass of the retry loop in which requests.get and raise_for_status
\* succeed and the body is well-formed XML with the entries of `feed`.
SearchSuccess(feed) ==
  /\ pc = "search"
  /\ attempt < max_retries
  /\ call_requests' = call_requests + 1
  /\ requested' = TRUE
  /\ papers' = search_papers_result(feed, DefaultLimit)
  /\ IF FeedRaises(feed)
       THEN /\ search_outcome' = "malformed"
            /\ slept' = 0
       ELSE /\ search_outcome' = "ok"
            /\ slept' = SleepAfterSuccess(0)
  /\ pc' = "novelty"
  /\ attempt' = 0
  /\ UNCHANGED <<ideas, user_topics, i, novelty_assessment,
                 doability_assessment, scored_ideas, top_ideas, j, result, raised>>
  /\ UNCHANGED <<gen_scores, synth_calls, fn, app>>

\* One pass in which the body cannot be parsed (ET.fromstring raises
\* ParseError): `except Exception` returns [] at once.
SearchMalformed ==
  /\ pc = "search"
  /\ attempt < max_retries
  /\ call_requests' = call_requests + 1
  /\ requested' = TRUE
  /\ search_outcome' = "malformed"
  /\ IF RetriesAfterParseError(attempt)
       THEN /\ slept' = SleepBeforeRetry(0)
            /\ attempt' = attempt + 1
            /\ pc' = "search"
            /\ UNCHANGED papers
       ELSE /\ slept' = 0
            /\ papers' = <<>>
            /\ pc' = "novelty"
            /\ attempt' = 0
  /\ UNCHANGED <<ideas, user_topics, i, novelty_assessment,
                 doability_assessment, scored_ideas, top_ideas, j, result, raised>>
  /\ UNCHANGED <<gen_scores, synth_calls, fn, app>>

\* One pass in which requests.get or raise_for_status raises a
\* RequestException (timeout, connection error, HTTP error status).
SearchTransportError ==
  /\ pc = "search"
  /\ attempt < max_retries
  /\ call_requests' = call_requests + 1
  /\ requested' = TRUE
  /\ IF RetriesLeft(attempt)
       THEN /\ slept' = SleepBeforeRetry(0)
            /\ attempt' = attempt + 1
            /\ pc' = "search"
            /\ UNCHANGED <<papers, search_outcome>>
       ELSE /\ slept' = 0
            /\ papers' = <<>>
            /\ search_outcome' = "transport"
            /\ pc' = "novelty"
            /\ attempt' = 0
  /\ UNCHANGED <<ideas, user_topics, i, novelty_assessment,
                 doability_assessment, scored_ideas, top_ideas, j, result, raised>>
  /\ UNCHANGED <<gen_scores, synth_calls, fn, app>>

\* The trailing `return []` of line 178 is not reached: with max_retries = 3
\* every pass of the loop returns or continues with a smaller attempt.

\* call_requests and search_outcome describe the _search_papers call that is
\* running or has just returned; they are cleared when the caller goes on.
\* Mutant: the composite is computed right after the novelty assessment.
AssessNoveltySkipsDoability(reply) ==
  /\ pc = "novelty"
  /\ novelty_assessment' = assess_novelty(reply)
  /\ pc' = "score"
  /\ call_requests' = 0
  /\ search_outcome' = "none"
  /\ UNCHANGED <<ideas, user_topics, i, attempt, papers, doability_assessment,
                 scored_ideas, top_ideas, j, result, raised, requested, slept>>
  /\ UNCHANGED <<gen_scores, synth_calls, fn, app>>

AssessNovelty(reply) ==
  /\ pc = "novelty"
  /\ novelty_assessment' = assess_novelty(reply)
  /\ pc' = "doability"
  /\ call_requests' = 0
  /\ search_outcome' = "none"
  /\ UNCHANGED <<ideas, user_topics, i, attempt, papers, doability_assessment,
                 scored_ideas, top_ideas, j, result, raised, requested, slept>>
  /\ UNCHANGED <<gen_scores, synth_calls, fn, app>>

AssessDoability(reply) ==
  /\ pc = "doability"
  /\ doability_assessment' = assess_doability(reply)
  /\ pc' = "score"
  /\ UNCHANGED <<ideas, user_topics, i, attempt, papers, novelty_assessment,
                 scored_ideas, top_ideas, j, result, raised, call_requests,
                 search_outcome, requested, slept>>
  /\ UNCHANGED <<gen_scores, synth_calls, fn, app>>

\* Mutant: every fetched paper is kept.
RetainedPapersAll(ps) == ps

\* papers[:8]
RetainedPapers(ps) == Take(ps, KeepPapers)

\* The list handed to _assess_novelty(idea, papers) and
\* _assess_doability(idea, papers): the fetched list itself.
AssessorPapers(ps) == ps

\* The ScoredIdea dict of lines 58-65.
ScoredIdea(idea, ps, nov, doa, topic_match_score) ==
  [idea |-> idea,
   papers |-> RetainedPapers(ps),
   novelty_assessment |-> nov,
   doability_assessment |-> doa,
   topic_match_score |-> topic_match_score,
   composite_score |-> CompositeScore(nov.novelty_score.v, doa.doability_score.v,
                                      topic_match_score),
   literature_synthesis |-> SynthesisAbsent]

\* Lines 49-69: topic match, composite score, append, sleep.  An exception
\* of the composite expression leaves research_ideas.
ScoreIdea ==
  /\ pc = "score"
  /\ IF CompositeOutcome(novelty_assessment, doability_assessment) = "ok"
       THEN /\ scored_ideas' =
                 Append(scored_ideas,
                        ScoredIdea(ideas[i], papers, novelty_assessment,
                                   doability_assessment,
                                   calculate_topic_match(ideas[i], user_topics)))
            /\ slept' = SleepBetweenIdeas(slept)
            /\ i' = i + 1
            /\ pc' = "loop"
            /\ UNCHANGED raised
       ELSE /\ raised' = CompositeOutcome(novelty_assessment, doability_assessment)
            /\ pc' = "raised"
            /\ UNCHANGED <<scored_ideas, slept, i>>
  /\ UNCHANGED <<ideas, user_topics, attempt, papers, novelty_assessment,
                 doability_assessment, top_ideas, j, result, call_requests,
                 search_outcome, requested>>
  /\ UNCHANGED <<gen_scores, synth_calls, fn, app>>

\* scored_ideas.sort(key=..., reverse=True)
Sort ==
  /\ pc = "sort"
  /\ scored_ideas' = SortByComposite(scored_ideas)
  /\ pc' = "select"
  /\ UNCHANGED <<ideas, user_topics, i, attempt, papers, novelty_assessment,
                 doability_assessment, top_ideas, j, result, raised,
                 call_requests, search_outcome, requested, slept>>
  /\ UNCHANGED <<gen_scores, synth_calls, fn, app>>

\* top_ideas = self._select_diverse_top_3(scored_ideas)
Select ==
  /\ pc = "select"
  /\ top_ideas' = select_diverse_top_3(scored_ideas)
  /\ j' = 1
  /\ pc' = "synth"
  /\ UNCHANGED <<ideas, user_topics, i, attempt, papers, novelty_assessment,
                 doability_assessment, scored_ideas, result, raised,
                 call_requests, search_outcome, requested, slept>>
  /\ UNCHANGED <<gen_scores, synth_calls, fn, app>>

\* Mutant: the synthesis loop runs over every scored idea.
AllScoredPositions(scored, top) == [k \in 1..Len(scored) |-> k]

\* The list the loop `for item in top_ideas` runs over (positions in scored).
SynthesisTargets(scored, top) == top

\* One pass of `for item in top_ideas`: the dict gains literature_synthesis.
Synthesize(reply) ==
  /\ pc = "synth"
  /\ j <= Len(SynthesisTargets(scored_ideas, top_ideas))
  /\ scored_ideas' =
       [scored_ideas EXCEPT ![SynthesisTargets(scored_ideas, top_ideas)[j]]
                               .literature_synthesis = synthesize_literature(reply)]
  /\ j' = j + 1
  /\ synth_calls' = Append(synth_calls, SynthesisTargets(scored_ideas, top_ideas)[j])
  /\ UNCHANGED <<ideas, user_topics, pc, i, attempt, papers, novelty_assessment,
                 doability_assessment, top_ideas, result, raised,
                 call_requests, search_outcome, requested, slept>>
  /\ UNCHANGED <<gen_scores, fn, app>>

\* The dicts top_ideas refers to.
TopIdeas == [k \in DOMAIN top_ideas |-> scored_ideas[top_ideas[k]]]

Return ==
  /\ pc = "synth"
  /\ j > Len(SynthesisTargets(scored_ideas, top_ideas))
  /\ result' = [returned |-> TRUE, top_ideas |-> TopIdeas,
                total_ideas_analyzed |-> Len(ideas)]
  /\ pc' = "done"
  /\ UNCHANGED <<ideas, user_topics, i, attempt, papers, novelty_assessment,
                 doability_assessment, scored_ideas, top_ideas, j, raised,
                 call_requests, search_outcome, requested, slept>>
  /\ UNCHANGED <<gen_scores, synth_calls, fn, app>>

Next ==
  \/ LoopHead
  \/ \E feed \in PipelineFeeds : SearchSuccess(feed)
  \/ SearchMalformed
  \/ SearchTransportError
  \/ \E reply \in GenRepliesWith(gen_scores) : AssessNovelty(reply)
  \/ \E reply \in GenRepliesWith(gen_scores) : AssessDoability(reply)
  \/ ScoreIdea
  \/ Sort
  \/ Select
  \/ \E reply \in SynthReplies : Synthesize(reply)
  \/ Return

Spec == Init /\ [][Next]_vars

\* ------------------------------------- runs with a wider range of scores
\* Short idea lists, and a backend whose numbers are not confined to 1..5.
WideIdeaLists == {SubList(S, 1) : S \in SUBSET (1..Min(MaxWideIdeas, Len(IdeaPool)))}

InitWide ==
  \E idea_list \in WideIdeaLists, topics \in TopicLists :
    RunStarts(idea_list, topics, WideGenScores)

SpecWide == InitWide /\ [][Next]_vars

\* ------------------------------------- runs with a backend that may hang
\* self.model.generate_content(prompt) at lines 216, 276 and 413 is called
\* without a timeout: when the backend never answers, the call never ends.
\* (requests.get(url, timeout=15) at line 108 does end: the Timeout it raises
\* is a RequestException, the case of SearchTransportError.)
GenerateNeverAnswers ==
  /\ \/ pc \in {"novelty", "doability"}
     \/ pc = "synth" /\ j <= Len(SynthesisTargets(scored_ideas, top_ideas))
  /\ pc' = "blocked"
  /\ UNCHANGED <<ideas, user_topics, i, attempt, papers, novelty_assessment,
                 doability_assessment, scored_ideas, top_ideas, j, result, raised,
                 call_requests, search_outcome, requested, slept>>
  /\ UNCHANGED <<gen_scores, synth_calls, fn, app>>

InitLive ==
  \E idea_list \in WideIdeaLists, topics \in TopicLists :
    RunStarts(idea_list, topics, GenScores)

NextLive == Next \/ GenerateNeverAnswers

\* Every step that can be taken is taken in the end: the interpreter runs on
\* and a backend that answers does so after finite time.
SpecLive == InitLive /\ [][NextLive]_vars /\ WF_vars(NextLive)

\* ------------------------------------------------------ the web application
\* One uploaded paper with its Analysis row, analyze requests made for it one
\* after another, and results requests arriving at any time.  `app` holds:
\*   db        what is committed: the Analysis row and the ResearchIdea and
\*             Reference rows of the analysis;
\*   session   the same as the session of the running analyze request sees it,
\*             uncommitted changes included;
\*   pc        where analyze_paper stands ("idle" between requests);
\*   run       the number of analyze requests received;
\*   request, response   the job_id and topics of the last analyze request,
\*             and the status code it was answered with (0: none yet);
\*   final_results, rank   locals of analyze_paper;
\*   completed the runs that have committed status 'complete';
\*   get       the answer of the results request served in the last step.

\* Analysis(status='uploaded', progress=10) as upload_paper commits it.
\* reader_output is <<>> while there is none, else <<number of ideas>>;
\* searcher_output is NoOutput while there is none.
NoOutput == [run |-> 0, top_ideas |-> <<>>]
UploadedAnalysis ==
  [status |-> "uploaded", progress |-> 10, error_message |-> "none",
   selected_topics |-> <<>>, reader_output |-> <<>>,
   searcher_output |-> NoOutput]

\* The topics of an analyze request: none, or one.
RequestTopics == {<<>>, <<"t">>}
\* The job_id of a request: absent, of no analysis, of the analysis.
RequestJobs == {"absent", "unknown", "known"}

\* The number of ideas ReaderAgent.analyze_paper returns (none when the idea
\* generation failed, reader.py:217-219).
ReaderIdeas == 0..MaxReaderIdeas

\* The papers lists of the finalists of a run: empty, or two papers.
FinalistPapers == {<<>>, <<"p1", "p2">>}

\* What research_ideas returns for n ideas: min(3, n) ScoredIdea dicts with
\* the keys idea and papers (and the assessments, left out here); there is no
\* key 'references'.
FinalResults(run, n, ps) ==
  [run |-> run,
   top_ideas |-> [k \in 1..Min(3, n) |-> [idea |-> k, papers |-> ps]]]

\* idea_data.get('references', [])
ReferencesOf(idea_data) ==
  IF "references" \in DOMAIN idea_data THEN idea_data.references ELSE <<>>

\* db.add of a row, sent by flush or commit: the store takes every write.
StoreAdd(rows, row) == Append(rows, row)

\* Mutant: the rows added by the failed run stay in the session.
KeepPending(session, committed) == session

\* db.rollback(): the session is back at what is committed.
Rollback(session, committed) == committed

\* Mutant: results are given for every analysis that has not failed.
ResultsAllowedUnlessError(status) == status # "error"

\* `if analysis.status != 'complete'` does not return 400
ResultsAllowed(status) == status = "complete"

NoResponse == [job |-> "absent", code |-> 0, output |-> NoOutput]

InitApp ==
  /\ ideas = <<>>
  /\ user_topics = <<>>
  /\ gen_scores = GenScores
  /\ fn = NoCall
  /\ pc = "app"
  /\ RunLocals
  /\ app = [db |-> [analysis |-> UploadedAnalysis, ideas |-> <<>>, references |-> <<>>],
            session |-> [analysis |-> UploadedAnalysis, ideas |-> <<>>, references |-> <<>>],
            pc |-> "idle", run |-> 0, response |-> 0,
            request |-> [job |-> "absent", topics |-> <<>>],
            final_results |-> NoOutput, rank |-> 0, completed |-> {},
            get |-> NoResponse]

\* The except branch of analyze_paper (lines 233-244) followed by the
\* finally: rollback, status 'error' with the message, commit, 500.
Fail(message) ==
  LET rolled == Rollback(app.session, app.db)
      failed == [rolled EXCEPT !.analysis.status = "error",
                               !.analysis.error_message = message]
  IN app' = [app EXCEPT !.db = failed, !.session = failed, !.pc = "idle",
                        !.response = 500, !.final_results = NoOutput, !.rank = 0,
                        !.get = NoResponse]

\* A request that analyze_paper answers before it changes anything.
Reject(job, topics, code) ==
  app' = [app EXCEPT !.run = @ + 1, !.request = [job |-> job, topics |-> topics],
                     !.response = code, !.get = NoResponse]

\* POST /api/analyze up to the first commit (lines 128-148).
AnalyzeRequest(job, topics) ==
  /\ pc = "app"
  /\ app.pc = "idle"
  /\ app.run < MaxRuns
  /\ IF job = "absent" THEN Reject(job, topics, 400)
     ELSE IF job = "unknown" THEN Reject(job, topics, 404)
     ELSE IF topics = <<>> THEN Reject(job, topics, 400)
     ELSE LET started == [app.db EXCEPT !.analysis.selected_topics = topics,
                                        !.analysis.status = "parsing",
                                        !.analysis.progress = 20]
          IN app' = [app EXCEPT !.run = @ + 1, !.response = 0,
                                !.request = [job |-> job, topics |-> topics],
                                !.db = started, !.session = started,
                                !.pc = "parse", !.get = NoResponse]
  /\ UNCHANGED <<ideas, user_topics, pc, i, attempt, papers, novelty_assessment,
                 doability_assessment, scored_ideas, top_ideas, j, result, raised,
                 call_requests, search_outcome, requested, slept, synth_calls,
                 gen_scores, fn>>

\* Step 1 (lines 150-167): the paper row is missing, or the PDF gives no
\* text, or the status goes to 'reading'.
ParsePDF(outcome) ==
  /\ pc = "app"
  /\ app.pc = "parse"
  /\ IF outcome = "no_paper" THEN Fail("Paper not found")
     ELSE IF outcome = "no_text"
       THEN LET failed == [app.session EXCEPT
                             !.analysis.status = "error",
                             !.analysis.error_message = "Failed to extract text from PDF"]
            IN app' = [app EXCEPT !.db = failed, !.session = failed, !.pc = "idle",
                                  !.response = 500, !.get = NoResponse]
       ELSE LET reading == [app.session EXCEPT !.analysis.status = "reading",
                                               !.analysis.progress = 30]
            IN app' = [app EXCEPT !.db = reading, !.session = reading,
                                  !.pc = "read", !.get = NoResponse]
  /\ UNCHANGED <<ideas, user_topics, pc, i, attempt, papers, novelty_assessment,
                 doability_assessment, scored_ideas, top_ideas, j, result, raised,
                 call_requests, search_outcome, requested, slept, synth_calls,
                 gen_scores, fn>>

\* Step 2 (lines 169-177): the reader, then status 'searching'.
ReadPaper(raises, n) ==
  /\ pc = "app"
  /\ app.pc = "read"
  /\ IF raises THEN Fail("reader")
     ELSE LET searching == [app.session EXCEPT !.analysis.reader_output = <<n>>,
                                                 !.analysis.status = "searching",
                                                 !.analysis.progress = 50]
          IN app' = [app EXCEPT !.db = searching, !.session = searching,
                                !.pc = "search", !.get = NoResponse]
  /\ UNCHANGED <<ideas, user_topics, pc, i, attempt, papers, novelty_assessment,
                 doability_assessment, scored_ideas, top_ideas, j, result, raised,
                 call_requests, search_outcome, requested, slept, synth_calls,
                 gen_scores, fn>>

\* Step 3 (lines 179-184): research_ideas raises (see C1), or its result is
\* put on the Analysis row, uncommitted.
ResearchIdeas(raises, ps) ==
  /\ pc = "app"
  /\ app.pc = "search"
  /\ IF raises THEN Fail("searcher")
     ELSE LET final_results ==
                FinalResults(app.run, app.session.analysis.reader_output[1], ps)
          IN app' = [app EXCEPT !.session.analysis.searcher_output = final_results,
                                !.final_results = final_results,
                                !.rank = 1, !.pc = "store", !.get = NoResponse]
  /\ UNCHANGED <<ideas, user_topics, pc, i, attempt, papers, novelty_assessment,
                 doability_assessment, scored_ideas, top_ideas, j, result, raised,
                 call_requests, search_outcome, requested, slept, synth_calls,
                 gen_scores, fn>>

\* The Reference rows added for one finalist (lines 206-219).
RECURSIVE AddReferences(_, _, _, _)
AddReferences(rows, refs, run, rank) ==
  IF refs = <<>> THEN rows
  ELSE AddReferences(StoreAdd(rows, [run |-> run, rank |-> rank, ref |-> Head(refs)]),
                     Tail(refs), run, rank)

\* One pass of the loop of lines 187-219: a ResearchIdea row is added and
\* flushed, then a Reference row for each of idea_data.get('references', []).
StoreIdea ==
  /\ pc = "app"
  /\ app.pc = "store"
  /\ app.rank <= Len(app.final_results.top_ideas)
  /\ LET idea_data == app.final_results.top_ideas[app.rank]
     IN app' = [app EXCEPT
                  !.session.ideas =
                     StoreAdd(@, [run |-> app.run, rank |-> app.rank, idea_data |-> idea_data]),
                  !.session.references =
                     AddReferences(@, ReferencesOf(idea_data), app.run, app.rank),
                  !.rank = @ + 1,
                  !.get = NoResponse]
  /\ UNCHANGED <<ideas, user_topics, pc, i, attempt, papers, novelty_assessment,
                 doability_assessment, scored_ideas, top_ideas, j, result, raised,
                 call_requests, search_outcome, requested, slept, synth_calls,
                 gen_scores, fn>>

\* db.flush() at line 203 raises for the row just added.
StoreFails ==
  /\ pc = "app"
  /\ app.pc = "store"
  /\ app.rank > 1
  /\ app.rank <= Len(app.final_results.top_ideas) + 1
  /\ Fail("flush")
  /\ UNCHANGED <<ideas, user_topics, pc, i, attempt, papers, novelty_assessment,
                 doability_assessment, scored_ideas, top_ideas, j, result, raised,
                 call_requests, search_outcome, requested, slept, synth_calls,
                 gen_scores, fn>>

\* Lines 221-231: status 'complete', and the commit of all that is pending.
Complete ==
  /\ pc = "app"
  /\ app.pc = "store"
  /\ app.rank > Len(app.final_results.top_ideas)
  /\ LET done == [app.session EXCEPT !.analysis.status = "complete",
                                      !.analysis.progress = 100]
     IN app' = [app EXCEPT !.db = done, !.session = done, !.pc = "idle",
                           !.response = 200, !.final_results = NoOutput, !.rank = 0,
                           !.completed = @ \cup {app.run}, !.get = NoResponse]
  /\ UNCHANGED <<ideas, user_topics, pc, i, attempt, papers, novelty_assessment,
                 doability_assessment, scored_ideas, top_ideas, j, result, raised,
                 call_requests, search_outcome, requested, slept, synth_calls,
                 gen_scores, fn>>

\* GET /api/results/<job_id> (lines 272-302), in a session of its own: it
\* sees what is committed.
get_results(job, db) ==
  IF job # "known" THEN [job |-> job, code |-> 404, output |-> NoOutput]
  ELSE IF ~ResultsAllowed(db.analysis.status)
         THEN [job |-> job, code |-> 400, output |-> NoOutput]
         ELSE [job |-> job, code |-> 200, output |-> db.analysis.searcher_output]

GetResults(job) ==
  /\ pc = "app"
  /\ app.get = NoResponse
  /\ app' = [app EXCEPT !.get = get_results(job, app.db)]
  /\ UNCHANGED <<ideas, user_topics, pc, i, attempt, papers, novelty_assessment,
                 doability_assessment, scored_ideas, top_ideas, j, result, raised,
                 call_requests, search_outcome, requested, slept, synth_calls,
                 gen_scores, fn>>

\* The response has been sent.
GetResultsDone ==
  /\ pc = "app"
  /\ app.get # NoResponse
  /\ app' = [app EXCEPT !.get = NoResponse]
  /\ UNCHANGED <<ideas, user_topics, pc, i, attempt, papers, novelty_assessment,
                 doability_assessment, scored_ideas, top_ideas, j, result, raised,
                 call_requests, search_outcome, requested, slept, synth_calls,
                 gen_scores, fn>>

NextApp ==
  \/ \E job \in RequestJobs, topics \in RequestTopics : AnalyzeRequest(job, topics)
  \/ \E outcome \in {"no_paper", "no_text", "ok"} : ParsePDF(outcome)
  \/ \E raises \in BOOLEAN, n \in ReaderIdeas : ReadPaper(raises, n)
  \/ \E raises \in BOOLEAN, ps \in FinalistPapers : ResearchIdeas(raises, ps)
  \/ StoreIdea
  \/ StoreFails
  \/ Complete
  \/ \E job \in {"unknown", "known"} : GetResults(job)
  \/ GetResultsDone

SpecApp == InitApp /\ [][NextApp]_vars

\* ------------------------------------------------ single calls of a helper
\* The calls: _calculate_topic_match(idea, user_topics),
\* _assess_novelty / _assess_doability with the backend's reply to their one
\* generate_content request, and _search_papers(idea, limit) with the feed of
\* a 2xx answer to its first request.
TopicMatchCalls ==
  {Call("calculate_topic_match", [idea |-> IdeaPool[k], user_topics |-> topics]) :
     k \in DOMAIN IdeaPool, topics \in CallTopicLists}
AssessNoveltyCalls ==
  {Call("assess_novelty", [reply |-> reply]) : reply \in GenRepliesWith(WideGenScores)}
AssessDoabilityCalls ==
  {Call("assess_doability", [reply |-> reply]) : reply \in GenRepliesWith(WideGenScores)}
SearchPapersCalls ==
  {Call("search_papers", [feed |-> feed, limit |-> limit]) :
     feed \in CallFeeds, limit \in 1..MaxLimit}

\* The body of the loop of research_ideas for one idea, given the list
\* _search_papers returned for it: k records, numbered in response order.
ProcessIdeaCalls ==
  {Call("process_idea", [papers |-> [n \in 1..k |-> [id |-> n]]]) : k \in 0..MaxPapers}

\* _select_diverse_top_3(scored_ideas) for a sorted list of at most MaxWalk
\* different ideas of the pool, in any order.
SelectCalls ==
  UNION {{Call("select_diverse_top_3",
               [scored |-> [k \in 1..len |-> [idea |-> IdeaPool[f[k]]]]]) :
            f \in {g \in [1..len -> DOMAIN IdeaPool] :
                     \A a, b \in 1..len : a # b => g[a] # g[b]}} :
         len \in 0..MaxWalk}

InitCalls ==
  /\ ideas = <<>>
  /\ user_topics = <<>>
  /\ gen_scores = WideGenScores
  /\ pc = "call"
  /\ app = NoApp
  /\ RunLocals
  /\ fn \in TopicMatchCalls \cup AssessNoveltyCalls \cup AssessDoabilityCalls
              \cup SearchPapersCalls \cup ProcessIdeaCalls \cup SelectCalls

\* _calculate_topic_match(idea, user_topics), called up to twice with the same
\* arguments.  It makes no request, does not sleep and assigns to neither
\* argument.  `matches` is the count it prints (0 on the early return).
CallTopicMatch ==
  /\ pc = "call"
  /\ fn.name = "calculate_topic_match"
  /\ Len(fn.outs) < 2
  /\ fn' = [fn EXCEPT !.outs =
              Append(@, [score |-> calculate_topic_match(fn.args.idea,
                                                         fn.args.user_topics),
                         matches |-> IF fn.args.user_topics = <<>> THEN 0
                                     ELSE topic_matches(fn.args.idea,
                                                        fn.args.user_topics)])]
  /\ UNCHANGED <<ideas, user_topics, pc, i, attempt, papers, novelty_assessment,
                 doability_assessment, scored_ideas, top_ideas, j, result, raised,
                 call_requests, search_outcome, requested, slept, synth_calls,
                 gen_scores, app>>

\* _assess_novelty: one generate_content request, then the parsed reply or
\* the default of the except branch.
CallAssessNovelty ==
  /\ pc = "call"
  /\ fn.name = "assess_novelty"
  /\ fn.outs = <<>>
  /\ fn' = [fn EXCEPT !.outs = <<assess_novelty(fn.args.reply)>>,
                       !.requests = @ + 1]
  /\ UNCHANGED <<ideas, user_topics, pc, i, attempt, papers, novelty_assessment,
                 doability_assessment, scored_ideas, top_ideas, j, result, raised,
                 call_requests, search_outcome, requested, slept, synth_calls,
                 gen_scores, app>>

\* _assess_doability, likewise.
CallAssessDoability ==
  /\ pc = "call"
  /\ fn.name = "assess_doability"
  /\ fn.outs = <<>>
  /\ fn' = [fn EXCEPT !.outs = <<assess_doability(fn.args.reply)>>,
                       !.requests = @ + 1]
  /\ UNCHANGED <<ideas, user_topics, pc, i, attempt, papers, novelty_assessment,
                 doability_assessment, scored_ideas, top_ideas, j, result, raised,
                 call_requests, search_outcome, requested, slept, synth_calls,
                 gen_scores, app>>

\* _search_papers(idea, limit) whose first request is answered 2xx with a
\* well-formed feed: the papers, and the sleep of line 160 unless formatting
\* raised.
CallSearchPapers ==
  /\ pc = "call"
  /\ fn.name = "search_papers"
  /\ fn.outs = <<>>
  /\ fn' = [fn EXCEPT !.outs = <<search_papers_result(fn.args.feed, fn.args.limit)>>,
                       !.requests = @ + 1,
                       !.slept = IF FeedRaises(fn.args.feed) THEN 0
                                 ELSE SleepAfterSuccess(0)]
  /\ UNCHANGED <<ideas, user_topics, pc, i, attempt, papers, novelty_assessment,
                 doability_assessment, scored_ideas, top_ideas, j, result, raised,
                 call_requests, search_outcome, requested, slept, synth_calls,
                 gen_scores, app>>

\* Lines 39-65 for one idea: both assessors are handed `papers`, the
\* ScoredIdea keeps papers[:8].
CallProcessIdea ==
  /\ pc = "call"
  /\ fn.name = "process_idea"
  /\ fn.outs = <<>>
  /\ fn' = [fn EXCEPT !.outs =
              <<[novelty_papers |-> AssessorPapers(fn.args.papers),
                 doability_papers |-> AssessorPapers(fn.args.papers),
                 scored |-> ScoredIdea(IdeaPool[1], fn.args.papers, NoveltyDefault,
                                       DoabilityDefault, NoTopicsScore)]>>]
  /\ UNCHANGED <<ideas, user_topics, pc, i, attempt, papers, novelty_assessment,
                 doability_assessment, scored_ideas, top_ideas, j, result, raised,
                 call_requests, search_outcome, requested, slept, synth_calls,
                 gen_scores, app>>

\* _select_diverse_top_3(scored_ideas): the positions of the dicts returned.
CallSelect ==
  /\ pc = "call"
  /\ fn.name = "select_diverse_top_3"
  /\ fn.outs = <<>>
  /\ fn' = [fn EXCEPT !.outs = <<select_diverse_top_3(fn.args.scored)>>]
  /\ UNCHANGED <<ideas, user_topics, pc, i, attempt, papers, novelty_assessment,
                 doability_assessment, scored_ideas, top_ideas, j, result, raised,
                 call_requests, search_outcome, requested, slept, synth_calls,
                 gen_scores, app>>

NextCalls ==
  \/ CallTopicMatch
  \/ CallAssessNovelty
  \/ CallAssessDoability
  \/ CallSearchPapers
  \/ CallProcessIdea
  \/ CallSelect

SpecCalls == InitCalls /\ [][NextCalls]_vars

\* ------------------------------------------------------------------ claims
\* Position in ideas of the idea a ScoredIdea was made from (the ideas of a
\* run are pairwise different).
InputPos(item) == CHOOSE k \in DOMAIN ideas : ideas[k] = item.idea

\* TooSimilar over the titles of the pool, tabulated.
PoolTitles == {IdeaPool[k].title : k \in DOMAIN IdeaPool}
SimilarTitles == [t1 \in PoolTitles |-> [t2 \in PoolTitles |-> TooSimilar(t1, t2)]]

\* Two ScoredIdea dicts whose titles share more than 3 words.
Similar(a, b) == SimilarTitles[a.idea.title][b.idea.title]

\* No two dicts of a list share more than 3 title words.
PairwiseDiverse(items) ==
  \A k, l \in DOMAIN items : k # l => ~Similar(items[k], items[l])

\* The walk over a sorted list admits position p second and position q third:
\* p is the first position after 1 not similar to 1, q the first after p
\* similar neither to 1 nor to p.
WalkAdmits(scored, p, q) ==
  /\ 1 < p /\ p < q /\ q <= Len(scored)
  /\ ~Similar(scored[p], scored[1])
  /\ \A m \in 2..(p - 1) : Similar(scored[m], scored[1])
  /\ ~Similar(scored[q], scored[1]) /\ ~Similar(scored[q], scored[p])
  /\ \A m \in (p + 1)..(q - 1) :
       Similar(scored[m], scored[1]) \/ Similar(scored[m], scored[p])

WalkFindsThree(scored) ==
  \E p, q \in DOMAIN scored : WalkAdmits(scored, p, q)

\* The input holds 3 ideas whose titles pairwise share at most 3 words.
InputHasDiverseTriple ==
  \E a, b, c \in DOMAIN ideas :
    /\ a < b /\ b < c
    /\ ~SimilarTitles[ideas[a].title][ideas[b].title]
    /\ ~SimilarTitles[ideas[a].title][ideas[c].title]
    /\ ~SimilarTitles[ideas[b].title][ideas[c].title]

\* C1: whatever the backends do, research_ideas processes every idea and
\* returns; no exception leaves it.  (Stated as claimed; the code violates it.)
C1_NoExceptionEscapes == raised = "none"

\* C2: every returned ScoredIdea has composite_score =
\* 0.3*novelty_score + 0.4*doability_score + 0.3*topic_match_score of the
\* same record (scores in tenths, composite in hundredths).
C2_CompositeIsWeightedSum ==
  result.returned =>
    \A k \in DOMAIN result.top_ideas :
      LET r == result.top_ideas[k]
      IN r.composite_score =
           3 * r.novelty_assessment.novelty_score.v
           + 4 * r.doability_assessment.doability_score.v
           + 3 * r.topic_match_score

C2_Witness ==
  /\ result.returned
  /\ Len(result.top_ideas) = 3
  /\ \E k \in DOMAIN result.top_ideas :
       /\ result.top_ideas[k].novelty_assessment.novelty_score.v = 50
       /\ result.top_ideas[k].doability_assessment.doability_score.v = 30
       /\ result.top_ideas[k].topic_match_score = 15

\* C3: a _search_papers call in which every request fails with a transport
\* error has made exactly 3 requests when it returns, returns [] and raises
\* nothing; no call ever makes a 4th request.
C3_ThreeAttemptsThenEmpty ==
  /\ call_requests <= 3
  /\ (pc = "novelty" /\ search_outcome = "transport") =>
       (call_requests = 3 /\ papers = <<>> /\ raised = "none")

C3_Witness == pc = "novelty" /\ search_outcome = "transport" /\ i = 2

\* C4: every request to the search backend but the first of a run is made
\* after at least 3 seconds of sleep since the request before it.
C4_DelayBetweenRequests ==
  [][(requested /\ call_requests' = call_requests + 1) => slept >= 3]_vars

\* The first request of the second idea is due after a call that ended
\* without a sleep of its own (final transport failure or malformed body).
C4_Witness ==
  /\ pc = "search" /\ i = 2 /\ attempt = 0 /\ call_requests = 0
  /\ requested /\ slept = 3

\* C5 as claimed: if the input holds 3 mutually diverse ideas, no two
\* returned ideas share more than 3 title words.  (The code violates it.)
C5_DiverseWheneverPossible ==
  (result.returned /\ Len(ideas) >= 3 /\ InputHasDiverseTriple) =>
    PairwiseDiverse(result.top_ideas)

\* C5 amended: with exactly 3 ideas that are mutually diverse, and with more
\* than 3 ideas whenever the walk over the sorted list admits 3, no two
\* returned ideas share more than 3 title words; with more than 3 ideas the
\* result is the plain top 3 exactly when the walk admits fewer than 3.
C5_DiverseWhenWalkFindsThree ==
  result.returned =>
    /\ (Len(ideas) = 3 /\ InputHasDiverseTriple) => PairwiseDiverse(result.top_ideas)
    /\ (Len(ideas) > 3 /\ WalkFindsThree(scored_ideas)) =>
         PairwiseDiverse(result.top_ideas)
    /\ (Len(ideas) > 3 /\ ~WalkFindsThree(scored_ideas)) =>
         result.top_ideas = SubSeq(scored_ideas, 1, 3)

\* The walk admits 3 after it has passed over a higher-ranked near-duplicate.
C5_Witness ==
  /\ result.returned
  /\ Len(ideas) > 3
  /\ WalkFindsThree(scored_ideas)
  /\ top_ideas # <<1, 2, 3>>

\* C6: top_ideas has exactly min(3, n) entries and total_ideas_analyzed = n.
C6_ResultSize ==
  result.returned =>
    /\ Len(result.top_ideas) = Min(3, Len(ideas))
    /\ result.total_ideas_analyzed = Len(ideas)

\* More than 3 ideas, and the diversity filter did not find 3.
C6_Witness ==
  /\ result.returned
  /\ Len(ideas) > 3
  /\ ~WalkFindsThree(scored_ideas)
  /\ Len(result.top_ideas) = 3

\* C7: the first returned idea has a maximal composite_score among the
\* ScoredIdeas of all input ideas.
C7_FirstIsMaximal ==
  (result.returned /\ Len(ideas) > 0) =>
    /\ Len(scored_ideas) = Len(ideas)
    /\ \A k \in DOMAIN scored_ideas :
         result.top_ideas[1].composite_score >= scored_ideas[k].composite_score

\* The best idea is not the first of the input, and the fallback path ran.
C7_Witness ==
  /\ result.returned
  /\ Len(ideas) > 3
  /\ ~WalkFindsThree(scored_ideas)
  /\ result.top_ideas[1].idea # ideas[1]
  /\ \E k \in DOMAIN scored_ideas :
       scored_ideas[k].composite_score < result.top_ideas[1].composite_score

\* A list of ScoredIdeas is in descending composite order, ties in input order.
StablyDescending(items) ==
  \A k, l \in DOMAIN items :
    k < l =>
      /\ items[k].composite_score >= items[l].composite_score
      /\ items[k].composite_score = items[l].composite_score =>
           InputPos(items[k]) < InputPos(items[l])

\* C8: scored_ideas is in descending composite order with ties in input order
\* from the sort on, and top_ideas keeps that order.
C8_SortedStable ==
  /\ pc \in {"select", "synth", "done"} => StablyDescending(scored_ideas)
  /\ pc \in {"synth", "done"} => StablyDescending(TopIdeas)
  /\ result.returned => StablyDescending(result.top_ideas)

\* A tie between two ideas, below an idea that the sort moved to the front.
C8_Witness ==
  /\ pc = "select"
  /\ Len(scored_ideas) >= 3
  /\ scored_ideas[1].idea # ideas[1]
  /\ \E k, l \in DOMAIN scored_ideas :
       k < l /\ scored_ideas[k].composite_score = scored_ideas[l].composite_score

\* C9: with more than 3 ideas, when the walk admits fewer than 3 the
\* selection is the first 3 of the sorted list, in sorted order.
C9_FallbackIsTop3 ==
  (pc \in {"synth", "done"} /\ Len(scored_ideas) > 3
     /\ ~WalkFindsThree(scored_ideas)) =>
    /\ top_ideas = <<1, 2, 3>>
    /\ result.returned => result.top_ideas = SubSeq(scored_ideas, 1, 3)

\* The walk had admitted the 4th of the sorted list, which is discarded.
C9_Witness ==
  /\ result.returned
  /\ Len(scored_ideas) > 3
  /\ ~WalkFindsThree(scored_ideas)
  /\ ~Similar(scored_ideas[4], scored_ideas[1])
  /\ Similar(scored_ideas[2], scored_ideas[1])
  /\ Similar(scored_ideas[3], scored_ideas[1])

\* C10: with 3 or fewer ideas every input idea is returned, in descending
\* composite order, each with a literature synthesis, whatever the titles.
C10_ShortListsUnfiltered ==
  (result.returned /\ Len(ideas) <= 3) =>
    /\ Len(result.top_ideas) = Len(ideas)
    /\ {result.top_ideas[k].idea : k \in DOMAIN result.top_ideas}
         = {ideas[k] : k \in DOMAIN ideas}
    /\ \A k, l \in DOMAIN result.top_ideas :
         k < l => result.top_ideas[k].composite_score
                    >= result.top_ideas[l].composite_score
    /\ \A k \in DOMAIN result.top_ideas :
         result.top_ideas[k].literature_synthesis # SynthesisAbsent

\* Three ideas, two of them with near-duplicate titles, all returned.
C10_Witness ==
  /\ result.returned
  /\ Len(ideas) = 3
  /\ ~PairwiseDiverse(result.top_ideas)

\* C11: _synthesize_literature is called only once every input idea is
\* scored and the selection is made, for the selected records only, in the
\* order of top_ideas and once each; when research_ideas has returned it has
\* been called for every selected record, and exactly the selected records
\* carry a literature_synthesis.
C11_SynthesisOncePerFinalist ==
  /\ synth_calls # <<>> =>
       (pc \in {"synth", "done"} /\ Len(scored_ideas) = Len(ideas))
  /\ Len(synth_calls) <= Len(top_ideas)
  /\ synth_calls = SubSeq(top_ideas, 1, Len(synth_calls))
  /\ \A k, l \in DOMAIN synth_calls : k # l => synth_calls[k] # synth_calls[l]
  /\ pc \notin {"synth", "done"} =>
       \A k \in DOMAIN scored_ideas :
         scored_ideas[k].literature_synthesis = SynthesisAbsent
  /\ result.returned =>
       /\ synth_calls = top_ideas
       /\ \A k \in DOMAIN scored_ideas :
            (scored_ideas[k].literature_synthesis # SynthesisAbsent)
              <=> (\E l \in DOMAIN top_ideas : top_ideas[l] = k)
       /\ \A k \in DOMAIN result.top_ideas :
            result.top_ideas[k].literature_synthesis # SynthesisAbsent

\* Four ideas scored, three selected, the one passed over not among the
\* last of the sorted list.
C11_Witness ==
  /\ result.returned
  /\ Len(scored_ideas) > 3
  /\ top_ideas # <<1, 2, 3>>
  /\ Len(synth_calls) = 3

\* The score a degraded assessment would contribute.
ScoreOrNeutral(score) == IF score.k = "num" THEN score.v ELSE NeutralScore

\* C17 as claimed: when an assessment is a JSON object without its score key
\* (and nothing else is wrong with the scores), the idea is scored with 3 in
\* place of the absent score and appended, and nothing is raised.  (The code
\* violates it.)
C17_MissingScoreDegrades ==
  [][(/\ pc = "score"
      /\ novelty_assessment.json = "object"
      /\ doability_assessment.json = "object"
      /\ novelty_assessment.novelty_score.k \in {"num", "missing"}
      /\ doability_assessment.doability_score.k \in {"num", "missing"}
      /\ \/ novelty_assessment.novelty_score.k = "missing"
         \/ doability_assessment.doability_score.k = "missing")
     => (/\ raised' = "none"
         /\ pc' = "loop"
         /\ Len(scored_ideas') = Len(scored_ideas) + 1
         /\ scored_ideas'[Len(scored_ideas')].composite_score =
              CompositeScore(ScoreOrNeutral(novelty_assessment.novelty_score),
                             ScoreOrNeutral(doability_assessment.doability_score),
                             calculate_topic_match(ideas[i], user_topics)))]_vars

\* C18: a request answered with a body that cannot be parsed ends the
\* _search_papers call in the same step with [] and without an exception, on
\* whichever attempt it arrives, and no request follows it for that idea.
C18_MalformedBodyEndsSearch ==
  [][/\ (call_requests' = call_requests + 1 /\ search_outcome' = "malformed") =>
          (papers' = <<>> /\ pc' = "novelty" /\ raised' = "none")
     /\ search_outcome = "malformed" => call_requests' # call_requests + 1]_vars

\* The malformed body arrived on the 3rd attempt, after two transport errors.
C18_Witness ==
  /\ pc = "novelty"
  /\ search_outcome = "malformed"
  /\ call_requests = 3
  /\ papers = <<>>

\* The matching rule as claimed: the whole phrase occurs in the text, or a
\* word of the phrase longer than 3 characters does.
ClaimedTopicMatch(idea_text, topic) ==
  \/ Contains(idea_text, topic)
  \/ \E k \in DOMAIN Split(topic) :
       Len(Split(topic)[k]) > 3 /\ Contains(idea_text, Split(topic)[k])

\* C12 as claimed: for a non-empty topic list the number of topics counted
\* as matched is the number of topics whose lower-cased phrase occurs verbatim
\* in the lower-cased title+description or one of whose words of more than 3
\* characters does.  (The code violates it.)
C12_PhraseOrLongWord ==
  (fn.name = "calculate_topic_match" /\ fn.outs # <<>>
     /\ fn.args.user_topics # <<>>) =>
    fn.outs[1].matches =
      Cardinality({k \in DOMAIN fn.args.user_topics :
                     ClaimedTopicMatch(
                       Lower(fn.args.idea.title \o <<" ">> \o fn.args.idea.description),
                       Lower(fn.args.user_topics[k]))})

\* C13: with n > 0 topics of which m are counted, the score s (in tenths) is
\* the tenth nearest to 15 + 35*m/n, the even one on a tie; it is 15 for
\* m = 0, 50 for m = n, within 15..50, and does not decrease when m grows.
C13_ScoreFormula ==
  (fn.name = "calculate_topic_match" /\ fn.outs # <<>>
     /\ fn.args.user_topics # <<>>) =>
    LET n == Len(fn.args.user_topics)
        m == fn.outs[1].matches
        s == fn.outs[1].score
        d == s * n - (15 * n + 35 * m)
    IN /\ 2 * d <= n /\ -2 * d <= n
       /\ (2 * d = n \/ -2 * d = n) => s % 2 = 0
       /\ m = 0 => s = 15
       /\ m = n => s = 50
       /\ 15 <= s /\ s <= 50
       /\ \A m1, m2 \in 0..n : m1 <= m2 => topic_score(m1, n) <= topic_score(m2, n)

\* One of two topics matched: 3.25 lies between two tenths and goes to 3.2.
C13_Witness ==
  /\ fn.name = "calculate_topic_match"
  /\ fn.outs # <<>>
  /\ Len(fn.args.user_topics) = 2
  /\ fn.outs[1].matches = 1
  /\ fn.outs[1].score = 32

C15_ScoresInRange ==
  \A k \in DOMAIN scored_ideas :
    LET r == scored_ideas[k]
    IN /\ 10 <= r.novelty_assessment.novelty_score.v
       /\ r.novelty_assessment.novelty_score.v <= 50
       /\ 10 <= r.doability_assessment.doability_score.v
       /\ r.doability_assessment.doability_score.v <= 50
       /\ 10 <= r.topic_match_score /\ r.topic_match_score <= 50
       /\ 100 <= r.composite_score /\ r.composite_score <= 500

\* C16 as claimed: when the backend raises or its text holds no JSON object,
\* _assess_novelty and _assess_doability return their default dicts after
\* exactly one request.  (The code violates it for _assess_novelty.)
C16_FailureGivesDefault ==
  /\ (fn.name = "assess_novelty" /\ fn.outs # <<>>
        /\ fn.args.reply.kind \in {"raise", "nojson", "nonobject"}) =>
       /\ fn.outs[1] = [json |-> "object", explored |-> "Unknown",
                        maturity |-> "Unknown", gap |-> "Unable to assess",
                        novelty_score |-> Num(30)]
       /\ fn.requests = 1
  /\ (fn.name = "assess_doability" /\ fn.outs # <<>>
        /\ fn.args.reply.kind \in {"raise", "nojson", "nonobject"}) =>
       /\ fn.outs[1] = [json |-> "object", data_availability |-> "Unknown",
                        methodology |-> "Unknown", timeline |-> "Unknown",
                        expertise_level |-> "Unknown",
                        doability_score |-> Num(30)]
       /\ fn.requests = 1

\* An entry with a title that has text and an abstract that has text.
HasTitleAndAbstract(e) == e.title.k = "text" /\ e.summary.k = "text"

\* C19 as claimed: _search_papers returns the entries that have a title and
\* an abstract, formatted, in response order, whatever the other entries
\* lack.  (The code violates it.)
C19_MalformedEntryDropped ==
  (fn.name = "search_papers" /\ fn.outs # <<>>) =>
    fn.outs[1] = FormatEntries(SelectSeq(fn.args.feed, HasTitleAndAbstract))

\* C20 as claimed: _search_papers(idea, limit) returns at most limit
\* records.  (The code violates it.)
C20_AtMostLimit ==
  (fn.name = "search_papers" /\ fn.outs # <<>>) =>
    Len(fn.outs[1]) <= fn.args.limit

\* C24: the ScoredIdea made from the k papers a search returned keeps the
\* first min(8, k) of them in the same order, never more than 8, and both
\* assessors are handed all k.
C24_FirstEightKept ==
  (fn.name = "process_idea" /\ fn.outs # <<>>) =>
    LET k == Len(fn.args.papers)
        kept == fn.outs[1].scored.papers
    IN /\ Len(kept) <= 8
       /\ Len(kept) = (IF k < 8 THEN k ELSE 8)
       /\ \A n \in DOMAIN kept : kept[n] = fn.args.papers[n]
       /\ fn.outs[1].novelty_papers = fn.args.papers
       /\ fn.outs[1].doability_papers = fn.args.papers

\* The search returned 9 papers.
C24_Witness ==
  /\ fn.name = "process_idea"
  /\ fn.outs # <<>>
  /\ Len(fn.args.papers) = 9
  /\ Len(fn.outs[1].scored.papers) = 8

\* C25: on a sorted list of more than 3 ideas on which the walk admits 3,
\* _select_diverse_top_3 returns 3 positions in ascending order starting with
\* the first, no two of the ideas there share more than 3 title words, and
\* every position before the last returned one that is left out shares more
\* than 3 title words with a returned idea ranked above it.
C25_WalkAdmitsFirstDiverse ==
  (fn.name = "select_diverse_top_3" /\ fn.outs # <<>>
     /\ Len(fn.args.scored) > 3 /\ WalkFindsThree(fn.args.scored)) =>
    LET scored == fn.args.scored
        top == fn.outs[1]
    IN /\ Len(top) = 3
       /\ top[1] = 1 /\ top[1] < top[2] /\ top[2] < top[3]
       /\ \A a, b \in 1..3 : a # b => ~Similar(scored[top[a]], scored[top[b]])
       /\ \A m \in 1..top[3] :
            (\A a \in 1..3 : top[a] # m) =>
              \E a \in 1..3 : top[a] < m /\ Similar(scored[m], scored[top[a]])

\* Two near-duplicates of admitted ideas are passed over: the 2nd and the 4th.
C25_Witness ==
  /\ fn.name = "select_diverse_top_3"
  /\ fn.outs # <<>>
  /\ Len(fn.args.scored) = 5
  /\ fn.outs[1] = <<1, 3, 5>>

\* The steps of the loop body for one idea.
InLoopBody(p) == p \in {"search", "novelty", "doability", "score"}

\* C26: the steps for one idea follow each other as search, novelty,
\* doability, composite; while idea i is in work exactly the i-1 ideas before
\* it have their ScoredIdea; scored_ideas changes length only in the step that
\* computes the composite of idea i, which appends the record of ideas[i] and
\* moves on to idea i+1; after the loop there is one record per idea.
C26_OneIdeaAtATime ==
  [][/\ (pc' = "novelty" /\ pc # "novelty") => (pc = "search" /\ search_outcome' # "none")
     /\ (pc' = "doability" /\ pc # "doability") => pc = "novelty"
     /\ (pc' = "score" /\ pc # "score") => pc = "doability"
     /\ (pc' = "search" /\ pc # "search") => (pc = "loop" /\ i' = i)
     /\ InLoopBody(pc') => (i' <= Len(ideas) /\ Len(scored_ideas') = i' - 1)
     /\ i' # i => (pc = "score" /\ i' = i + 1)
     /\ Len(scored_ideas') # Len(scored_ideas) =>
          /\ pc = "score"
          /\ i' = i + 1
          /\ Len(scored_ideas') = Len(scored_ideas) + 1
          /\ SubSeq(scored_ideas', 1, Len(scored_ideas)) = scored_ideas
          /\ scored_ideas'[Len(scored_ideas')].idea = ideas[i]
     /\ pc' \in {"sort", "select", "synth", "done"} =>
          Len(scored_ideas') = Len(ideas)]_vars

\* The third idea is being assessed and two records have been appended.
C26_Witness ==
  /\ pc = "doability"
  /\ i = 3
  /\ Len(scored_ideas) = 2
  /\ scored_ideas[2].idea = ideas[2]

\* C23 as claimed: every external call ends by its timeout if not before, so
\* every run of research_ideas comes to an end (it returns; or, by the defect
\* of C1, it raises).  (The code violates it: a generative request that is
\* never answered blocks for ever.)
C23_EventuallyEnds == <>(pc \in {"done", "raised"})

\* C21 as claimed: an analyze request without topics is answered 400, and
\* no analysis whose reader produced an empty idea list is answered 200
\* ('complete').  (The code violates the second part.)
C21_FatalInputRejected ==
  /\ (app.run > 0 /\ app.request.job = "known" /\ app.request.topics = <<>>) =>
       app.response = 400
  /\ (app.pc = "idle" /\ app.response = 200) =>
       (app.db.analysis.status = "complete"
          /\ app.db.analysis.reader_output # <<0>>)

\* The rows of one run with one rank.
RowsOf(rows, run, rank) == {k \in DOMAIN rows : rows[k].run = run /\ rows[k].rank = rank}

\* C22 as claimed: when an analysis has completed, the store holds for its
\* run exactly one ResearchIdea row per finalist, with rank = position, and
\* for each finalist exactly one Reference row per paper of its papers list.
\* (The code violates the second part.)
C22_OneWritePerFinalistAndPaper ==
  (app.pc = "idle" /\ app.response = 200) =>
    LET out == app.db.analysis.searcher_output
    IN /\ Cardinality({k \in DOMAIN app.db.ideas : app.db.ideas[k].run = out.run})
            = Len(out.top_ideas)
       /\ \A r \in DOMAIN out.top_ideas :
            /\ Cardinality(RowsOf(app.db.ideas, out.run, r)) = 1
            /\ \A k \in RowsOf(app.db.ideas, out.run, r) :
                 app.db.ideas[k].idea_data = out.top_ideas[r]
            /\ Cardinality(RowsOf(app.db.references, out.run, r))
                 = Len(out.top_ideas[r].papers)

C28_ResultsOnlyWhenComplete ==
  [][app'.get # NoResponse =>
       /\ app'.db = app.db
       /\ app'.session = app.session
       /\ app'.pc = app.pc
       /\ app'.get.job = "unknown" => app'.get.code = 404
       /\ (app'.get.job = "known" /\ app.db.analysis.status # "complete") =>
            app'.get.code = 400
       /\ (app'.get.job = "known" /\ app.db.analysis.status = "complete") =>
            app'.get.code = 200
       /\ app'.get.code = 200 =>
            /\ app'.get.output = app.db.analysis.searcher_output
            /\ app'.get.output.run \in app.completed
       /\ app'.get.code # 200 => app'.get.output = NoOutput]_vars

\* A results request answered 400 while the second run holds its searcher
\* output uncommitted, the first run having completed.
C28_Witness ==
  /\ app.get.code = 400
  /\ app.pc = "store"
  /\ app.run = 2
  /\ 1 \in app.completed
  /\ app.session.analysis.searcher_output.run = 2
  /\ app.db.analysis.searcher_output.run = 1

\* C29 as claimed: the ResearchIdea rows stored for the analysis have
\* pairwise distinct ranks, are at most 3, and are those of the latest run
\* that completed.  (The code violates it.)
C29_DistinctRanks ==
  /\ \A k, l \in DOMAIN app.db.ideas :
       k # l => app.db.ideas[k].rank # app.db.ideas[l].rank
  /\ Len(app.db.ideas) <= 3
  /\ \A k \in DOMAIN app.db.ideas :
       app.db.ideas[k].run = app.db.analysis.searcher_output.run

====
